---- MODULE Spec2Model ----
(***************************************************************************)
(* A model of the CSR sparse-matrix engine of src/src/Matrix.ts.           *)
(*                                                                         *)
(* A Matrix object holds two numbers (rows, cols) and references to three  *)
(* JavaScript arrays (V, COL_INDEX, ROW_INDEX).  The arrays live in `heap` *)
(* and an object holds their identities, so that sharing of an array by    *)
(* two objects, and a write through one of them, is visible.  The pure     *)
(* part of every method is an operator on the object's contents (a record  *)
(* of rows, cols and the three sequences); the actions read the contents   *)
(* off the heap, apply the operator and write the outcome back.            *)
(*                                                                         *)
(* JavaScript arrays are 0-based and a read outside an array yields        *)
(* undefined; arithmetic on undefined yields NaN.  Both values occur in    *)
(* the program (a store built without dense data has ROW_INDEX = [0]) and  *)
(* are modelled by the reserved numbers below.                             *)
(***************************************************************************)
EXTENDS Integers, Sequences, FiniteSets, TLC

\* ------------------------------------------------------------------ bounds

\* the calls of one run that change a store in place: set(), and map() in its
\* non-strict mode, which pushes onto its receiver's arrays
MaxMutations == 1

\* ------------------------------------------------------- JavaScript values

NaN == -9001
undefined == -9002
NegInfinity == -9003

IsNum(x) == x \notin {NaN, undefined, NegInfinity}

\* x + y
jsAdd(x, y) ==
    IF IsNum(x) /\ IsNum(y) THEN x + y
    ELSE IF (x = NegInfinity /\ (IsNum(y) \/ y = NegInfinity))
            \/ (y = NegInfinity /\ IsNum(x)) THEN NegInfinity
    ELSE NaN

\* x - y
jsSub(x, y) == IF IsNum(x) /\ IsNum(y) THEN x - y ELSE NaN

\* x * y
jsMul(x, y) == IF IsNum(x) /\ IsNum(y) THEN x * y ELSE NaN

\* x < y: false as soon as one side converts to NaN
jsLess(x, y) == IsNum(x) /\ IsNum(y) /\ x < y

\* x || 0
jsOrZero(x) == IF IsNum(x) THEN x ELSE 0

\* a[i]
At(a, i) == IF IsNum(i) /\ i >= 0 /\ i < Len(a) THEN a[i + 1] ELSE undefined

\* ToIntegerOrInfinity followed by the clamp of Array.prototype.slice/splice
Clamp(x, len) ==
    IF ~IsNum(x) THEN 0
    ELSE IF x < 0 THEN (IF len + x < 0 THEN 0 ELSE len + x)
    ELSE IF x > len THEN len ELSE x

\* a.slice(start, end); an undefined end means the array's length
slice(a, start, end) ==
    LET k == Clamp(start, Len(a))
        f == IF end = undefined THEN Len(a) ELSE Clamp(end, Len(a))
    IN  IF k < f THEN SubSeq(a, k + 1, f) ELSE << >>

\* a.indexOf(x): strict equality, so NaN and undefined (holes) never match a number
indexOf(a, x) ==
    IF IsNum(x) /\ \E i \in 1..Len(a) : a[i] = x
    THEN (CHOOSE i \in 1..Len(a) : a[i] = x /\ \A j \in 1..(i - 1) : a[j] # x) - 1
    ELSE -1

\* a.splice(index, 0, item)
spliceInsert(a, index, item) ==
    LET k == Clamp(index, Len(a))
    IN  SubSeq(a, 1, k) \o << item >> \o SubSeq(a, k + 1, Len(a))

\* a.splice(index, 1)
spliceDelete(a, index) ==
    LET k == Clamp(index, Len(a))
    IN  IF k < Len(a) THEN SubSeq(a, 1, k) \o SubSeq(a, k + 2, Len(a)) ELSE a

\* a[idx] = val: a write past the end leaves holes, a write at NaN touches no element
writeAt(a, idx, val) ==
    IF ~IsNum(idx) \/ idx < 0 THEN a
    ELSE IF idx < Len(a) THEN [a EXCEPT ![idx + 1] = val]
    ELSE a \o [k \in 1..(idx - Len(a)) |-> undefined] \o << val >>

\* a.push(x)
push(a, x) == Append(a, x)

\* ------------------------------------------------------------ Matrix (pure)

\* the fields of a Matrix as the constructor leaves them without dense data
Matrix(rows, cols) ==
    [rows |-> rows, cols |-> cols, V |-> << >>, COL_INDEX |-> << >>, ROW_INDEX |-> << 0 >>]

\* data[i] && typeof data[i][j] === "number" && data[i][j] != 0
Stored(data, i, j) ==
    /\ i < Len(data)
    /\ j < Len(data[i + 1])
    /\ data[i + 1][j + 1] # 0

RECURSIVE sparseCells(_, _, _, _, _)
\* the loop of sparseData from cell (i, j) on, M holding what was pushed so far
sparseCells(M, data, i, j, row_end) ==
    IF i >= M.rows THEN M
    ELSE IF j >= M.cols
         THEN sparseCells([M EXCEPT !.ROW_INDEX = push(@, row_end)], data, i + 1, 0, row_end)
    ELSE IF Stored(data, i, j)
         THEN sparseCells([M EXCEPT !.V = push(@, data[i + 1][j + 1]),
                                    !.COL_INDEX = push(@, j)],
                          data, i, j + 1, row_end + 1)
    ELSE sparseCells(M, data, i, j + 1, row_end)

\* new Matrix(rows, cols, data)
sparseData(rows, cols, data) == sparseCells(Matrix(rows, cols), data, 0, 0, 0)

\* get(row, col)
get(M, row, col) ==
    LET columns == slice(M.COL_INDEX, At(M.ROW_INDEX, row), At(M.ROW_INDEX, row + 1))
        i == indexOf(columns, col)
    IN  IF i < 0 THEN 0 ELSE At(M.V, jsAdd(At(M.ROW_INDEX, row), i))

\* the loop adding d to ROW_INDEX[row + 1 ..]
shiftOffsets(ROW_INDEX, row, d) ==
    [k \in 1..Len(ROW_INDEX) |->
        IF k - 1 >= row + 1 THEN jsAdd(ROW_INDEX[k], d) ELSE ROW_INDEX[k]]

\* where set() puts a column absent from the row: this.ROW_INDEX[row] + columns.length
insertIndex(M, row, columns) == jsAdd(At(M.ROW_INDEX, row), Len(columns))

\* set(row, col, value)
set(M, row, col, value) ==
    LET columns == slice(M.COL_INDEX, At(M.ROW_INDEX, row), At(M.ROW_INDEX, row + 1))
        i == indexOf(columns, col)
    IN  IF i < 0
        THEN IF value # 0
             THEN LET index == insertIndex(M, row, columns)
                  IN  [M EXCEPT !.COL_INDEX = spliceInsert(@, index, col),
                                !.V = spliceInsert(@, index, value),
                                !.ROW_INDEX = shiftOffsets(@, row, 1)]
             ELSE M
        ELSE IF value = 0
             THEN LET index == jsAdd(At(M.ROW_INDEX, row), i)
                  IN  [M EXCEPT !.COL_INDEX = spliceDelete(@, index),
                                !.V = spliceDelete(@, index),
                                !.ROW_INDEX = shiftOffsets(@, row, -1)]
             ELSE [M EXCEPT !.V = writeAt(@, jsAdd(At(M.ROW_INDEX, row), i), value)]

\* the values i takes in for (let i = lo; i < hi; i++)
Span(lo, hi) == IF jsLess(lo, hi) THEN [k \in 1..(hi - lo) |-> lo + k - 1] ELSE << >>

RECURSIVE forEachFrom(_, _)
\* the visits of forEach(callback, true) from row on, each << value, row, col >>
forEachFrom(M, row) ==
    IF row >= Len(M.ROW_INDEX) - 1 THEN << >>
    ELSE LET idx == Span(At(M.ROW_INDEX, row), At(M.ROW_INDEX, row + 1))
         IN  [k \in 1..Len(idx) |-> << At(M.V, idx[k]), row, At(M.COL_INDEX, idx[k]) >>]
             \o forEachFrom(M, row + 1)

\* forEach(callback, true): the calls of callback, in order
forEach(M) == forEachFrom(M, 0)

\* the callbacks handed to map(): (value) => value + 2 and () => 0
Callbacks == {"plus2", "zero"}

\* callback(value, row, col)
call(f, value, row, col) ==
    CASE f = "plus2" -> jsAdd(value, 2)
      [] OTHER -> 0

RECURSIVE mapStrict(_, _, _, _)
\* the strict branch of map(): C after the visits from the k-th on
mapStrict(C, visits, k, f) ==
    IF k > Len(visits) THEN C
    ELSE LET value == visits[k][1]
             row == visits[k][2]
             col == visits[k][3]
             newValue == call(f, value, row, col)
             C1 == IF newValue # 0
                   THEN [C EXCEPT !.V = push(@, newValue), !.COL_INDEX = push(@, col)]
                   ELSE C
             C2 == IF Len(C1.ROW_INDEX) - 1 < row + 1
                   THEN [C1 EXCEPT !.ROW_INDEX = push(@, Len(C1.V))]
                   ELSE C1
         IN  mapStrict(C2, visits, k + 1, f)

RECURSIVE mapFull(_, _, _, _, _)
\* the non-strict branch of map(): the receiver after the cells from (i, j) on
mapFull(M, f, i, j, row_end) ==
    IF i >= M.rows THEN M
    ELSE IF j >= M.cols
         THEN mapFull([M EXCEPT !.ROW_INDEX = push(@, row_end)], f, i + 1, 0, row_end)
    ELSE LET newValue == call(f, get(M, i, j), i, j)
         IN  IF newValue # 0
             THEN mapFull([M EXCEPT !.V = push(@, newValue), !.COL_INDEX = push(@, j)],
                          f, i, j + 1, row_end + 1)
             ELSE mapFull(M, f, i, j + 1, row_end)

\* map(callback, strict): the receiver as the call leaves it, and the store returned
map(M, f, strict) ==
    IF strict
    THEN [this |-> M, ret |-> mapStrict(Matrix(M.rows, M.cols), forEach(M), 1, f)]
    ELSE [this |-> mapFull(M, f, 0, 0, 0), ret |-> Matrix(M.rows, M.cols)]

RECURSIVE countCols(_, _, _)
\* the first loop of transpose(): T_ROW_INDEX[col + 1]++ for every stored entry
countCols(M, T, i) ==
    IF i >= Len(M.V) THEN T
    ELSE LET col == At(M.COL_INDEX, i)
         IN  countCols(M, IF IsNum(col) /\ col + 1 < Len(T)
                          THEN [T EXCEPT ![col + 2] = @ + 1] ELSE T, i + 1)

RECURSIVE prefixSums(_, _, _)
\* the second loop of transpose(): T_ROW_INDEX[i] += T_ROW_INDEX[i - 1]
prefixSums(T, i, cols) ==
    IF i > cols THEN T ELSE prefixSums([T EXCEPT ![i + 1] = @ + T[i]], i + 1, cols)

RECURSIVE scatter(_, _, _, _)
\* the third loop of transpose(): S holds T_V, T_COL_INDEX and rowPtr; js are the
\* positions of row i still to move
scatter(M, S, i, js) ==
    IF i >= M.rows THEN S
    ELSE IF js = << >>
         THEN scatter(M, S, i + 1,
                      Span(At(M.ROW_INDEX, i + 1), At(M.ROW_INDEX, i + 2)))
    ELSE LET j == Head(js)
             col == At(M.COL_INDEX, j)
             pos == At(S.rowPtr, col)
         IN  scatter(M,
                     IF IsNum(pos)
                     THEN [V |-> writeAt(S.V, pos, At(M.V, j)),
                           COL_INDEX |-> writeAt(S.COL_INDEX, pos, i),
                           rowPtr |-> writeAt(S.rowPtr, col, pos + 1)]
                     ELSE S,
                     i, Tail(js))

\* transpose()
transpose(M) ==
    LET T_ROW_INDEX == prefixSums(countCols(M, [k \in 1..(M.cols + 1) |-> 0], 0), 1, M.cols)
        S == scatter(M, [V |-> << >>, COL_INDEX |-> << >>, rowPtr |-> T_ROW_INDEX], 0,
                     Span(At(M.ROW_INDEX, 0), At(M.ROW_INDEX, 1)))
    IN  [rows |-> M.cols, cols |-> M.rows, V |-> S.V, COL_INDEX |-> S.COL_INDEX,
         ROW_INDEX |-> T_ROW_INDEX]

\* accumulator.get(key)
accGet(acc, key) == IF key \in DOMAIN acc THEN acc[key] ELSE undefined

\* accumulator.set(key, val)
accSet(acc, key, val) == [x \in DOMAIN acc \cup {key} |-> IF x = key THEN val ELSE acc[x]]

\* new Map()
EmptyAcc == [x \in {} |-> 0]

RECURSIVE accumulate(_, _, _, _)
\* accumulator.set(col, (accumulator.get(col) || 0) + sign * V[j]) for the positions js of M
accumulate(acc, M, js, sign) ==
    IF js = << >> THEN acc
    ELSE LET col == At(M.COL_INDEX, Head(js))
             val == At(M.V, Head(js))
             old == jsOrZero(accGet(acc, col))
         IN  accumulate(accSet(acc, col, IF sign > 0 THEN jsAdd(old, val) ELSE jsSub(old, val)),
                        M, Tail(js), sign)

RECURSIVE sortedKeys(_)
\* the keys of a set in ascending order
sortedKeys(S) ==
    IF S = {} THEN << >>
    ELSE LET m == CHOOSE x \in S : \A y \in S : x <= y
         IN  << m >> \o sortedKeys(S \ {m})

\* Array.from(accumulator.entries()).filter(([_, val]) => val !== 0).sort((a, b) => a[0] - b[0]),
\* as the columns in order
sortedEntries(acc) == sortedKeys({k \in DOMAIN acc : acc[k] # 0})

\* the pushes that end a row of addition, subtract and multiply
emitRow(C, acc) ==
    LET cols == sortedEntries(acc)
        C_V == C.V \o [k \in 1..Len(cols) |-> acc[cols[k]]]
    IN  [C EXCEPT !.V = C_V, !.COL_INDEX = @ \o cols, !.ROW_INDEX = push(@, Len(C_V))]

\* the positions of row i of M
rowSpan(M, i) == Span(At(M.ROW_INDEX, i), At(M.ROW_INDEX, i + 1))

RECURSIVE mergeRows(_, _, _, _, _)
\* the row loop of addition (sign 1) and subtract (sign -1) from row i on
mergeRows(C, A, B, i, sign) ==
    IF i >= A.rows THEN C
    ELSE LET acc == accumulate(accumulate(EmptyAcc, A, rowSpan(A, i), 1), B, rowSpan(B, i), sign)
         IN  mergeRows(emitRow(C, acc), A, B, i + 1, sign)

\* the guard of addition, subtract and hadamard
shapeMismatch(A, B) == A.rows # B.rows \/ A.cols # B.cols

\* innerMismatch had multiply compared the operands' rows
rowsMismatch(A, B) == A.rows # B.rows

\* the guard of multiply
innerMismatch(A, B) == A.cols # B.rows

\* addition(matrix), past its guard
addition(A, B) == mergeRows(Matrix(A.rows, A.cols), A, B, 0, 1)

\* subtract(matrix), past its guard
subtract(A, B) == mergeRows(Matrix(A.rows, A.cols), A, B, 0, -1)

RECURSIVE hadamardRow(_, _, _, _, _, _, _)
\* the while loop of hadamard on one row
hadamardRow(C, A, B, aPtr, bPtr, aEnd, bEnd) ==
    IF ~(jsLess(aPtr, aEnd) /\ jsLess(bPtr, bEnd)) THEN C
    ELSE LET aCol == At(A.COL_INDEX, aPtr)
             bCol == At(B.COL_INDEX, bPtr)
             val == jsMul(At(A.V, aPtr), At(B.V, bPtr))
         IN  IF aCol = bCol
             THEN hadamardRow(IF val # 0
                              THEN [C EXCEPT !.V = push(@, val), !.COL_INDEX = push(@, aCol)]
                              ELSE C,
                              A, B, aPtr + 1, bPtr + 1, aEnd, bEnd)
             ELSE IF jsLess(aCol, bCol)
             THEN hadamardRow(C, A, B, aPtr + 1, bPtr, aEnd, bEnd)
             ELSE hadamardRow(C, A, B, aPtr, bPtr + 1, aEnd, bEnd)

RECURSIVE hadamardRows(_, _, _, _)
\* the row loop of hadamard from row i on
hadamardRows(C, A, B, i) ==
    IF i >= A.rows THEN C
    ELSE LET R == hadamardRow(C, A, B, At(A.ROW_INDEX, i), At(B.ROW_INDEX, i),
                              At(A.ROW_INDEX, i + 1), At(B.ROW_INDEX, i + 1))
         IN  hadamardRows([R EXCEPT !.ROW_INDEX = push(@, Len(R.V))], A, B, i + 1)

\* hadamard(matrix), past its guard
hadamard(A, B) == hadamardRows(Matrix(A.rows, A.cols), A, B, 0)

RECURSIVE productRow(_, _, _, _)
\* the aPtr loop of multiply: the accumulator of one output row
productRow(acc, A, B, as) ==
    IF as = << >> THEN acc
    ELSE LET k == At(A.COL_INDEX, Head(as))
             aVal == At(A.V, Head(as))
             bs == Span(At(B.ROW_INDEX, k), At(B.ROW_INDEX, jsAdd(k, 1)))
             step[n \in 0..Len(bs)] ==
                 IF n = 0 THEN acc
                 ELSE LET j == At(B.COL_INDEX, bs[n])
                          bVal == At(B.V, bs[n])
                      IN  accSet(step[n - 1], j,
                                 jsAdd(jsOrZero(accGet(step[n - 1], j)), jsMul(aVal, bVal)))
         IN  productRow(step[Len(bs)], A, B, Tail(as))

RECURSIVE productRows(_, _, _, _)
\* the row loop of multiply from row i on
productRows(C, A, B, i) ==
    IF i >= Len(A.ROW_INDEX) - 1 THEN C
    ELSE productRows(emitRow(C, productRow(EmptyAcc, A, B, rowSpan(A, i))), A, B, i + 1)

\* multiply(matrix), past its guard
multiply(A, B) == productRows(Matrix(A.rows, B.cols), A, B, 0)

RECURSIVE subRows(_, _, _, _, _)
\* the row loop of csrMatrixSubmatrix from row i on
subRows(S, M, i, excludeRow, excludeCol) ==
    IF i >= Len(M.ROW_INDEX) - 1 THEN S
    ELSE IF i = excludeRow THEN subRows(S, M, i + 1, excludeRow, excludeCol)
    ELSE LET js == SelectSeq(rowSpan(M, i), LAMBDA j : At(M.COL_INDEX, j) # excludeCol)
             newCol(j) == LET col == At(M.COL_INDEX, j)
                          IN  IF jsLess(col, excludeCol) THEN col ELSE jsSub(col, 1)
             subV == S.V \o [k \in 1..Len(js) |-> At(M.V, js[k])]
         IN  subRows([S EXCEPT !.V = subV,
                               !.COL_INDEX = @ \o [k \in 1..Len(js) |-> newCol(js[k])],
                               !.ROW_INDEX = push(@, @[Len(@)] + Len(js))],
                     M, i + 1, excludeRow, excludeCol)

\* csrMatrixSubmatrix(matrix, excludeRow, excludeCol)
csrMatrixSubmatrix(M, excludeRow, excludeCol) ==
    subRows(Matrix(M.cols, M.rows), M, 0, excludeRow, excludeCol)

\* Math.max(...a)
mathMax(a) ==
    IF a = << >> THEN NegInfinity
    ELSE IF \E k \in 1..Len(a) : ~IsNum(a[k]) THEN NaN
    ELSE CHOOSE x \in {a[k] : k \in 1..Len(a)} : \A k \in 1..Len(a) : a[k] <= x

\* what a call hands back: a value, or the Error it throws
Returns(v) == [threw |-> FALSE, value |-> v, error |-> ""]
Throws(msg) == [threw |-> TRUE, value |-> undefined, error |-> msg]

\* the message of the Error csrMatrixDeterminant throws
NotSquareMatrix == "A matriz nao e quadrada"

\* the message of the Error addition, subtract, hadamard and multiply throw
DimensionMismatch == "Matrix dimensions must match."

RECURSIVE csrMatrixDeterminant(_)
\* csrMatrixDeterminant(matrix)
csrMatrixDeterminant(M) ==
    LET n == Len(M.ROW_INDEX) - 1
        maxCol == jsAdd(mathMax(M.COL_INDEX), 1)
        is == rowSpan(M, 0)
        term(i) ==
            LET col == At(M.COL_INDEX, i)
                cofactor == csrMatrixDeterminant(csrMatrixSubmatrix(M, 0, col))
                sign == IF col % 2 = 0 THEN 1 ELSE -1
            IN  IF cofactor.threw THEN cofactor
                ELSE Returns(jsMul(jsMul(sign, At(M.V, i)), cofactor.value))
        det[k \in 0..Len(is)] ==
            IF k = 0 THEN Returns(0)
            ELSE IF det[k - 1].threw THEN det[k - 1]
            ELSE LET t == term(is[k])
                 IN  IF t.threw THEN t ELSE Returns(jsAdd(det[k - 1].value, t.value))
    IN  IF n = 0 THEN Returns(1)
        ELSE IF n = 1 THEN Returns(jsOrZero(At(M.V, 0)))
        ELSE IF n # maxCol THEN Throws(NotSquareMatrix)
        ELSE det[Len(is)]

\* determinant()
determinant(M) == csrMatrixDeterminant(M)

\* ------------------------------------------------------------------- state

\* the variables of the calling program that hold a Matrix: the receiver a of
\* the calls, the argument b of the binary ones, and the result c = a.<op>(b)
Slots == {"a", "b", "c"}
Operands == {"a", "b"}

\* the identities of the arrays: three for each object alive
ArrayIds == 1..(3 * Cardinality(Slots))

VARIABLES
    heap,    \* heap[id]: the elements of array id
    objs,    \* objs[s]: the Matrix variable s holds: rows, cols and the identities of its arrays
    origin,  \* origin[s]: the call that built the contents of s ("" while s holds nothing)
    last,    \* the last call: its name, receiver, arguments and what it handed back
    nMutations  \* the set() and non-strict map() calls so far

vars == << heap, objs, origin, last, nMutations >>

\* a variable that holds no Matrix yet
NoObject == [rows |-> 0, cols |-> 0, V |-> 0, COL_INDEX |-> 0, ROW_INDEX |-> 0]

\* the arrays an object refers to
Refs(o) == {o.V, o.COL_INDEX, o.ROW_INDEX} \ {0}

\* the fields of object o, its arrays read off heap h
Contents(h, o) ==
    [rows |-> o.rows, cols |-> o.cols,
     V |-> IF o.V = 0 THEN << >> ELSE h[o.V],
     COL_INDEX |-> IF o.COL_INDEX = 0 THEN << >> ELSE h[o.COL_INDEX],
     ROW_INDEX |-> IF o.ROW_INDEX = 0 THEN << >> ELSE h[o.ROW_INDEX]]

\* the contents of the Matrix variable s holds now
This(s) == Contents(heap, objs[s])

\* FreshArrays had the result kept the receiver's offsets (C.ROW_INDEX = this.ROW_INDEX)
SharedOffsets(os) ==
    LET used == UNION {Refs(os[s]) : s \in DOMAIN os}
        free == sortedKeys(ArrayIds \ used)
    IN  << free[1], free[2], IF os["a"] # NoObject THEN os["a"].ROW_INDEX ELSE free[3] >>

\* the array literals of a constructor or of a method's result (V, COL_INDEX,
\* ROW_INDEX): three arrays no object in os refers to
FreshArrays(os) ==
    LET used == UNION {Refs(os[s]) : s \in DOMAIN os}
        free == sortedKeys(ArrayIds \ used)
    IN  << free[1], free[2], free[3] >>

\* heap h once the arrays no object of os refers to are collected
Collect(h, os) ==
    LET used == UNION {Refs(os[s]) : s \in DOMAIN os}
    IN  [id \in ArrayIds |-> IF id \in used THEN h[id] ELSE << >>]

\* s = <a new Matrix with contents M>: the heap and the variables afterwards
Assign(h, os, s, M) ==
    LET ids == FreshArrays([os EXCEPT ![s] = NoObject])
        o == [rows |-> M.rows, cols |-> M.cols,
              V |-> ids[1], COL_INDEX |-> ids[2], ROW_INDEX |-> ids[3]]
        os2 == [os EXCEPT ![s] = o]
        h2 == [id \in ArrayIds |->
                 IF id = ids[3] THEN M.ROW_INDEX
                 ELSE IF id = ids[2] THEN M.COL_INDEX
                 ELSE IF id = ids[1] THEN M.V ELSE h[id]]
    IN  [heap |-> Collect(h2, os2), objs |-> os2]

\* heap h after the arrays of object o were changed in place to those of M
WriteThrough(h, o, M) ==
    [id \in ArrayIds |->
        IF id = o.ROW_INDEX THEN M.ROW_INDEX
        ELSE IF id = o.COL_INDEX THEN M.COL_INDEX
        ELSE IF id = o.V THEN M.V ELSE h[id]]

\* a record of a call
Call(op, this, arg, row, col, value, ret) ==
    [op |-> op, this |-> this, arg |-> arg, row |-> row, col |-> col, value |-> value,
     ret |-> ret]

\* the shapes of the stores built
Shapes == {<< 1, 2 >>, << 2, 2 >>, << 2, 3 >>}

\* the dense arrays compressed: the examples of the documentation comments of
\* Matrix.ts, a ragged array as in index.ts, and small arrays with zeros
DenseInputs ==
    { [rows |-> 2, cols |-> 2, data |-> << << 1, 2 >>, << 3, 4 >> >>],
      [rows |-> 2, cols |-> 2, data |-> << << 0, 5 >>, << -1 >> >>],
      [rows |-> 1, cols |-> 2, data |-> << << 0, 5 >> >>],
      [rows |-> 2, cols |-> 3, data |-> << << 1, 0, 0 >>, << 0, 1, 0 >> >>] }

\* the sizes handed to identity(): the size of the documentation examples of the
\* binary operations, and zero, which the constructor takes as it takes any number
IdentitySizes == {0, 2}

\* the values handed to set(): zero, which removes an entry, and a non-zero one
SetValues == {0, 1}

\* the dense arrays and shapes of the smaller program
FrameInputs ==
    {in \in DenseInputs : in.cols = 2 /\ \A i \in 1..Len(in.data) : Len(in.data[i]) = 2}
FrameShapes == {<< 1, 2 >>}

Init ==
    /\ heap = [id \in ArrayIds |-> << >>]
    /\ objs = [s \in Slots |-> NoObject]
    /\ origin = [s \in Slots |-> ""]
    /\ last = Call("", "", "", 0, 0, 0, Returns(0))
    /\ nMutations = 0

\* the program builds its stores before it calls their methods
Building == last.op \in {"", "construct", "zeros", "identity"}

\* s = new Matrix(rows, cols, data)
Construct(s, in) ==
    /\ Building
    /\ objs[s] = NoObject
    /\ LET n == Assign(heap, objs, s, sparseData(in.rows, in.cols, in.data))
       IN  heap' = n.heap /\ objs' = n.objs
    /\ origin' = [origin EXCEPT ![s] = "construct"]
    /\ last' = Call("construct", s, "", 0, 0, 0, Returns(0))
    /\ UNCHANGED nMutations

\* s = Matrix.zeros(rows, cols)
Zeros(s, rows, cols) ==
    /\ Building
    /\ objs[s] = NoObject
    /\ LET n == Assign(heap, objs, s, Matrix(rows, cols))
       IN  heap' = n.heap /\ objs' = n.objs
    /\ origin' = [origin EXCEPT ![s] = "zeros"]
    /\ last' = Call("zeros", s, "", 0, 0, 0, Returns(0))
    /\ UNCHANGED nMutations

\* s = Matrix.identity(size)
Identity(s, size) ==
    /\ Building
    /\ objs[s] = NoObject
    /\ LET n == Assign(heap, objs, s, Matrix(size, size))
       IN  heap' = n.heap /\ objs' = n.objs
    /\ origin' = [origin EXCEPT ![s] = "identity"]
    /\ last' = Call("identity", s, "", 0, 0, 0, Returns(0))
    /\ UNCHANGED nMutations

\* s.set(row, col, value)
Set(s, row, col, value) ==
    /\ objs[s] # NoObject
    /\ nMutations < MaxMutations
    /\ row < objs[s].rows /\ col < objs[s].cols
    /\ heap' = WriteThrough(heap, objs[s], set(This(s), row, col, value))
    /\ last' = Call("set", s, "", row, col, value, Returns(undefined))
    /\ nMutations' = nMutations + 1
    /\ UNCHANGED << objs, origin >>

\* c = s.<op>(t) for addition, subtract, hadamard and multiply: the guard throws,
\* or the result R is handed back as a new Matrix
Binary(op, s, t, mismatch, R) ==
    /\ objs[s] # NoObject /\ objs[t] # NoObject
    /\ IF mismatch
       THEN /\ last' = Call(op, s, t, 0, 0, 0, Throws(DimensionMismatch))
            /\ UNCHANGED << heap, objs, origin >>
       ELSE /\ LET n == Assign(heap, objs, "c", R)
               IN  heap' = n.heap /\ objs' = n.objs
            /\ origin' = [origin EXCEPT !["c"] = op]
            /\ last' = Call(op, s, t, 0, 0, 0, Returns(0))
    /\ UNCHANGED nMutations

\* c = s.addition(t)
Addition(s, t) ==
    Binary("addition", s, t, shapeMismatch(This(s), This(t)), addition(This(s), This(t)))

\* c = s.subtract(t)
Subtract(s, t) ==
    Binary("subtract", s, t, shapeMismatch(This(s), This(t)), subtract(This(s), This(t)))

\* c = s.hadamard(t)
Hadamard(s, t) ==
    Binary("hadamard", s, t, shapeMismatch(This(s), This(t)), hadamard(This(s), This(t)))

\* c = s.multiply(t)
Multiply(s, t) ==
    Binary("multiply", s, t, innerMismatch(This(s), This(t)), multiply(This(s), This(t)))

\* c = s.transpose()
Transpose(s) ==
    /\ objs[s] # NoObject
    /\ LET n == Assign(heap, objs, "c", transpose(This(s)))
       IN  heap' = n.heap /\ objs' = n.objs
    /\ origin' = [origin EXCEPT !["c"] = "transpose"]
    /\ last' = Call("transpose", s, "", 0, 0, 0, Returns(0))
    /\ UNCHANGED nMutations

\* c = s.map(f, strict); value records the mode (1: strict) and arg the callback
Map(s, f, strict) ==
    /\ objs[s] # NoObject
    /\ strict \/ nMutations < MaxMutations
    /\ LET m == map(This(s), f, strict)
           n == Assign(WriteThrough(heap, objs[s], m.this), objs, "c", m.ret)
       IN  heap' = n.heap /\ objs' = n.objs
    /\ origin' = [origin EXCEPT !["c"] = "map", ![s] = IF strict THEN @ ELSE "map receiver"]
    /\ last' = Call("map", s, f, 0, 0, IF strict THEN 1 ELSE 0, Returns(0))
    /\ nMutations' = IF strict THEN nMutations ELSE nMutations + 1

\* s.determinant()
Determinant(s) ==
    /\ objs[s] # NoObject
    /\ last' = Call("determinant", s, "", 0, 0, 0, determinant(This(s)))
    /\ UNCHANGED << heap, objs, origin, nMutations >>

\* one call of the calling program, which builds its stores from the dense
\* arrays ins and the shapes shs and calls set() on the variables in targets
Program(ins, shs, targets) ==
    \/ \E s \in Operands, in \in ins : Construct(s, in)
    \/ \E s \in Operands, sh \in shs : Zeros(s, sh[1], sh[2])
    \/ \E size \in IdentitySizes : Identity("a", size)
    \/ \E s \in targets, row \in 0..1, col \in 0..2, value \in SetValues :
          Set(s, row, col, value)
    \/ Addition("a", "b")
    \/ Subtract("a", "b")
    \/ Hadamard("a", "b")
    \/ Multiply("a", "b")
    \/ Transpose("a")
    \/ \E f \in Callbacks, strict \in BOOLEAN : Map("a", f, strict)
    \/ Determinant("a")

Next == Program(DenseInputs, Shapes, Slots)

Spec == Init /\ [][Next]_vars

\* the same program over fewer inputs, calling set() on the receiver and the result
NextFrame == Program(FrameInputs, FrameShapes, {"a", "c"})

SpecFrame == Init /\ [][NextFrame]_vars

\* ------------------------------------------------------------------ claims

\* the cells of a store
Cells(M) == (0..(M.rows - 1)) \X (0..(M.cols - 1))

\* the columns stored for row r: COL_INDEX[ROW_INDEX[r] .. ROW_INDEX[r + 1])
RowColumns(M, r) == slice(M.COL_INDEX, At(M.ROW_INDEX, r), At(M.ROW_INDEX, r + 1))

StrictlyIncreasing(q) == \A i \in 1..(Len(q) - 1) : jsLess(q[i], q[i + 1])

Ascending(M) == \A r \in 0..(M.rows - 1) : StrictlyIncreasing(RowColumns(M, r))

NoStoredZero(M) == \A k \in 1..Len(M.V) : M.V[k] # 0

\* two stores of one shape with the same value in every cell
SameDense(A, B) ==
    /\ A.rows = B.rows /\ A.cols = B.cols
    /\ \A rc \in Cells(A) : get(A, rc[1], rc[2]) = get(B, rc[1], rc[2])

\* the variables holding a store built from dense data, by zeros or by identity,
\* and changed since by set() alone
Built == {s \in Slots : origin[s] \in {"construct", "zeros", "identity"}}

AlgebraOps == {"addition", "subtract", "hadamard", "multiply", "transpose"}
BinaryOps == {"addition", "subtract", "hadamard", "multiply"}

\* C1: in a store compressed from dense data and changed by set() calls, the
\* columns of every row are strictly increasing.
C1_SortedColumns ==
    \A s \in Slots : origin[s] = "construct" => Ascending(This(s))

\* C2: after set(r, c, v) on a store built from dense data, by zeros or by
\* identity, get(r, c) is v; and when v is 0 row r keeps no entry for column c.
C2_SetThenGet ==
    (last.op = "set" /\ last.this \in Built) =>
        LET M == This(last.this)
        IN  /\ get(M, last.row, last.col) = last.value
            /\ last.value = 0 =>
                 \A k \in 1..Len(RowColumns(M, last.row)) :
                    RowColumns(M, last.row)[k] # last.col

\* ROW_INDEX has rows + 1 offsets, starts at 0, never decreases and ends at the
\* length of V, which is the length of COL_INDEX
RowOffsetsOk(M) ==
    /\ Len(M.ROW_INDEX) = M.rows + 1
    /\ M.ROW_INDEX[1] = 0
    /\ \A i \in 1..(Len(M.ROW_INDEX) - 1) : M.ROW_INDEX[i] <= M.ROW_INDEX[i + 1]
    /\ M.ROW_INDEX[Len(M.ROW_INDEX)] = Len(M.V)
    /\ Len(M.V) = Len(M.COL_INDEX)

\* the minors the determinant of M extracts at its first level
Minors(M) ==
    IF Len(M.ROW_INDEX) - 1 < 2 THEN {}
    ELSE {csrMatrixSubmatrix(M, 0, At(M.COL_INDEX, i)) :
            i \in {rowSpan(M, 0)[k] : k \in 1..Len(rowSpan(M, 0))}}

\* C3: every store the program holds (built by a constructor, changed by set(),
\* handed back by a method) and every minor extracted from one has well-formed
\* row offsets.
C3_RowOffsets ==
    \A s \in Slots : objs[s] # NoObject =>
        /\ RowOffsetsOk(This(s))
        /\ \A m \in Minors(This(s)) : RowOffsetsOk(m)

\* C4: a call of map(), strict or not, leaves the receiver's three arrays as
\* they were and hands back an object that shares none of them.
C4_MapLeavesReceiver ==
    [][last'.op = "map" =>
          /\ Contents(heap', objs'[last'.this]) = Contents(heap, objs[last'.this])
          /\ objs'[last'.this] = objs[last'.this]
          /\ Refs(objs'["c"]) \cap Refs(objs'[last'.this]) = {}]_vars

\* C5: addition, subtract, hadamard, multiply and transpose leave the receiver
\* and the argument as they were and hand back a store with three arrays of its
\* own; and a later set() on one store changes no other store.
C5_OperandsUnchanged ==
    [][/\ (last'.op \in AlgebraOps) =>
            /\ \A s \in Operands :
                  /\ objs'[s] = objs[s]
                  /\ Contents(heap', objs'[s]) = Contents(heap, objs[s])
            /\ ~last'.ret.threw =>
                  /\ Cardinality(Refs(objs'["c"])) = 3
                  /\ \A s \in Operands : Refs(objs'["c"]) \cap Refs(objs'[s]) = {}
       /\ (last'.op = "set") =>
            \A s \in Slots \ {last'.this} :
               Contents(heap', objs'[s]) = Contents(heap, objs[s])]_vars

\* a set() that stored a value in the result of an algebraic call on two operands
C5_Witness ==
    /\ last.op = "set" /\ last.this = "c" /\ last.value # 0
    /\ origin["c"] \in AlgebraOps
    /\ objs["a"] # NoObject /\ objs["b"] # NoObject
    /\ get(This("c"), last.row, last.col) = last.value

\* C6: for two stores of one shape built from dense data and changed by set()
\* calls, every cell of the Hadamard product is the product of the operands' cells.
C6_HadamardElementwise ==
    (origin["a"] = "construct" /\ origin["b"] = "construct"
        /\ ~shapeMismatch(This("a"), This("b"))) =>
        LET A == This("a")
            B == This("b")
            H == hadamard(A, B)
        IN  \A rc \in Cells(A) :
               get(H, rc[1], rc[2]) = jsMul(get(A, rc[1], rc[2]), get(B, rc[1], rc[2]))

\* the dense array of index.ts
model == << << 10, 20 >>, << 0, 30, 0, 40 >>, << 0, 0, 50, 60, 70 >>, << 0, 0, 0, 0, 0, 80 >> >>

\* C7: the transpose of any store has the shape cols x rows and the value of
\* cell (r, c) in cell (c, r), and transposing twice gives the store's shape and
\* cells back; the 4 x 6 store of index.ts has 40 in (1, 3), its transpose in (3, 1).
C7_TransposeRoundTrip ==
    /\ get(sparseData(4, 6, model), 1, 3) = 40
    /\ get(transpose(sparseData(4, 6, model)), 3, 1) = 40
    /\ \A s \in Slots : objs[s] # NoObject =>
          LET A == This(s)
              T == transpose(A)
          IN  /\ T.rows = A.cols /\ T.cols = A.rows
              /\ \A rc \in Cells(A) : get(T, rc[2], rc[1]) = get(A, rc[1], rc[2])
              /\ SameDense(transpose(T), A)

\* C8: for two stores of one shape, A.addition(B).subtract(B) has the cells of
\* A, and the sum and the difference store no zero and keep every row ascending.
C8_AdditiveInverse ==
    (objs["a"] # NoObject /\ objs["b"] # NoObject
        /\ ~shapeMismatch(This("a"), This("b"))) =>
        LET A == This("a")
            B == This("b")
            S == addition(A, B)
            D == subtract(S, B)
        IN  /\ SameDense(D, A)
            /\ NoStoredZero(S) /\ NoStoredZero(D)
            /\ Ascending(S) /\ Ascending(D)

\* the operands of a call of op do not fit: rows or cols differ (addition,
\* subtract, hadamard), or A.cols is not B.rows (multiply)
Unfit(op, A, B) ==
    IF op = "multiply" THEN A.cols # B.rows
    ELSE A.rows # B.rows \/ A.cols # B.cols

\* C9: a call of addition, subtract, hadamard or multiply on operands that do
\* not fit throws, hands back no store and leaves every array as it was.
C9_DimensionMismatch ==
    [][(last'.op \in BinaryOps
          /\ Unfit(last'.op, Contents(heap, objs[last'.this]), Contents(heap, objs[last'.arg])))
       => /\ last'.ret = Throws(DimensionMismatch)
          /\ heap' = heap /\ objs' = objs /\ origin' = origin]_vars

\* a multiply that threw on operands whose inner dimensions differ
C9_Witness ==
    /\ last.op = "multiply" /\ last.ret.threw
    /\ This("a").cols # This("b").rows

\* C10: determinant() on a store whose rows and cols differ throws the
\* not-square error and hands back no number.
C10_DeterminantNotSquare ==
    (last.op = "determinant" /\ objs[last.this].rows # objs[last.this].cols) =>
        last.ret = Throws(NotSquareMatrix)

\* row q of a dense array without its j-th element
DropAt(q, j) == [k \in 1..(Len(q) - 1) |-> IF k < j THEN q[k] ELSE q[k + 1]]

\* the dense array D without its first row and its j-th column
DenseMinor(D, j) == [i \in 1..(Len(D) - 1) |-> DropAt(D[i + 1], j)]

RECURSIVE LaplaceDet(_), LaplaceSum(_, _)
\* the first j terms of the Laplace expansion of D along its first row
LaplaceSum(D, j) ==
    IF j = 0 THEN 0
    ELSE LaplaceSum(D, j - 1)
           + (IF j % 2 = 1 THEN 1 ELSE -1) * D[1][j] * LaplaceDet(DenseMinor(D, j))

\* the determinant of the square dense array D; 1 for the empty array
LaplaceDet(D) == IF Len(D) = 0 THEN 1 ELSE LaplaceSum(D, Len(D))

\* the dense projection of a store: the value of every cell, 0 where none is stored
Dense(M) == [r \in 1..M.rows |-> [c \in 1..M.cols |-> jsOrZero(get(M, r - 1, c - 1))]]

\* C11: determinant() of a square store compressed from dense data and changed by
\* set() calls returns the Laplace determinant of its dense projection and throws
\* nothing, and the determinant of [[1, 2], [3, 4]] is -2.
C11_DeterminantLaplace ==
    /\ determinant(sparseData(2, 2, << << 1, 2 >>, << 3, 4 >> >>)) = Returns(-2)
    /\ (last.op = "determinant" /\ origin[last.this] = "construct"
          /\ objs[last.this].rows = objs[last.this].cols) =>
          last.ret = Returns(LaplaceDet(Dense(This(last.this))))

\* C12: no constructor call (new Matrix, zeros, identity) with rows <= 0 or
\* cols <= 0 hands back a store: every store built has positive rows and cols.
C12_InvalidShape ==
    \A s \in Slots : last.op \in {"construct", "zeros", "identity"} /\ last.this = s =>
        /\ objs[s] # NoObject => objs[s].rows > 0 /\ objs[s].cols > 0
        /\ last.ret.threw <=> objs[s] = NoObject

RECURSIVE DotProduct(_, _, _, _)
\* the sum over t < k of A.get(i, t) * B.get(t, j)
DotProduct(A, B, ij, k) ==
    IF k = 0 THEN 0
    ELSE jsAdd(DotProduct(A, B, ij, k - 1),
               jsMul(get(A, ij[1], k - 1), get(B, k - 1, ij[2])))

\* P is the matrix product of A and B: shape, cells, no stored zero, ascending rows
IsProduct(P, A, B) ==
    /\ P.rows = A.rows /\ P.cols = B.cols
    /\ \A ij \in Cells(P) : get(P, ij[1], ij[2]) = DotProduct(A, B, ij, A.cols)
    /\ NoStoredZero(P)
    /\ Ascending(P)

\* C13: for A (m x k) and B (k x n) built from dense data, by zeros or by
\* identity and changed by set() calls, A.multiply(B) is the m x n matrix
\* product, stores no zero and keeps every row ascending; and
\* [[1, 2], [3, 4]] times [[5, 6], [7, 8]] is [[19, 22], [43, 50]].
C13_MultiplyProduct ==
    /\ multiply(sparseData(2, 2, << << 1, 2 >>, << 3, 4 >> >>),
                sparseData(2, 2, << << 5, 6 >>, << 7, 8 >> >>))
          = sparseData(2, 2, << << 19, 22 >>, << 43, 50 >> >>)
    /\ ({"a", "b"} \subseteq Built /\ ~innerMismatch(This("a"), This("b"))) =>
          IsProduct(multiply(This("a"), This("b")), This("a"), This("b"))

\* the property of C13 for operands compressed from dense data (set() calls included)
C13_DenseBuilt ==
    (origin["a"] = "construct" /\ origin["b"] = "construct"
        /\ ~innerMismatch(This("a"), This("b"))) =>
        IsProduct(multiply(This("a"), This("b")), This("a"), This("b"))

\* row r of M stores an entry for column c
StoresEntry(M, r, c) == \E k \in 1..Len(RowColumns(M, r)) : RowColumns(M, r)[k] = c

\* R is M mapped with f in strict mode: f of the stored entries, 0 elsewhere
IsStrictMap(R, M, f) ==
    /\ R.rows = M.rows /\ R.cols = M.cols
    /\ \A rc \in Cells(M) :
          get(R, rc[1], rc[2]) =
             IF StoresEntry(M, rc[1], rc[2])
             THEN call(f, get(M, rc[1], rc[2]), rc[1], rc[2]) ELSE 0

\* R is M mapped with f in non-strict mode: f of every cell of the grid
IsFullMap(R, M, f) ==
    /\ R.rows = M.rows /\ R.cols = M.cols
    /\ \A rc \in Cells(M) :
          get(R, rc[1], rc[2]) = call(f, get(M, rc[1], rc[2]), rc[1], rc[2])

\* C14: a call of map(f) on a store M compressed from dense data and changed by
\* set() calls hands back f of M's stored entries and 0 elsewhere in strict
\* mode, and f of every cell of the grid in non-strict mode.
C14_MapResult ==
    [][(last'.op = "map" /\ origin[last'.this] = "construct") =>
          LET M == Contents(heap, objs[last'.this])
              R == Contents(heap', objs'["c"])
          IN  IF last'.value = 1 THEN IsStrictMap(R, M, last'.arg)
              ELSE IsFullMap(R, M, last'.arg)]_vars

\* the strict half of C14 alone: the documented example and every dense-built store
C14_StrictMap ==
    /\ SameDense(map(sparseData(2, 2, << << 1, 0 >>, << 0, 4 >> >>), "plus2", TRUE).ret,
                 sparseData(2, 2, << << 3, 0 >>, << 0, 6 >> >>))
    /\ \A s \in Slots : origin[s] = "construct" =>
          \A f \in Callbacks : IsStrictMap(map(This(s), f, TRUE).ret, This(s), f)

====
